---------------------------- MODULE Spec2Model ----------------------------
(***************************************************************************)
(* lp_distance of src/lp.rs: the l^p / Minkowski distance between two      *)
(* points, as a state machine of one call.                                 *)
(*                                                                         *)
(* T::Value is a finite-precision real (f32, f64: the implementors of      *)
(* num_traits::real::Real).  A Value is modelled as an integer number of   *)
(* units, Scale units making 1.0: the representable numbers are the        *)
(* multiples of 1/Scale, the smallest positive one is 1 unit, and every    *)
(* powf result is rounded to a representable number.  Subtraction, abs and *)
(* the additions of the loop are exact on this grid.                       *)
(*                                                                         *)
(* The exponent p ranges over the integer-valued reals 1..MaxP; p.recip()  *)
(* is kept as the exact fraction 1/p and its rounding is part of the       *)
(* rounding of powf.                                                       *)
(***************************************************************************)
EXTENDS Integers, Sequences, FiniteSets

\* Bounds of the model.
MaxDim == 2
MaxCoord == 4
MaxP == 3
Scale == 4

VARIABLES
    build,      \* "debug": debug assertions enabled; "release": disabled
    libm,       \* how this build's powf rounds an inexact result
    p, x, y,    \* the arguments of the call
    pc,         \* "assert", "loop", "done", "panic"
    i,          \* the loop index
    sum,        \* the accumulator
    visited,    \* the indices whose coordinates have been read, in order
    result      \* <<>> until the call returns, then <<value>>

vars == <<build, libm, p, x, y, pc, i, sum, visited, result>>

-----------------------------------------------------------------------------
(* Values *)

\* The coordinate values the inputs are drawn from, in units: zero, the
\* smallest positive Value, and the whole numbers 1..MaxCoord.
Coords == {0, 1} \cup {c * Scale : c \in 1..MaxCoord}

PointsOfDim(n) == [1..n -> Coords]

Points == UNION {PointsOfDim(n) : n \in 0..MaxDim}

Exponents == 1..MaxP

\* powf is accurate to less than one unit in the last place: an exact result
\* is returned exactly, an inexact one is rounded to one of its two
\* neighbours.  sqrt and * are correctly rounded ("near").
Roundings == {"down", "near", "up"}

Zero == 0 * Scale

RECURSIVE IPow(_, _)
IPow(b, e) == IF e = 0 THEN 1 ELSE b * IPow(b, e - 1)

\* num/den (den > 0) rounded to a whole number of units.
RoundTo(num, den, mode) ==
    LET q == num \div den
        r == num % den
    IN  IF r = 0 THEN q
        ELSE CASE mode = "down" -> q
               [] mode = "up"   -> q + 1
               [] OTHER -> IF 2 * r > den \/ (2 * r = den /\ q % 2 = 1)
                           THEN q + 1 ELSE q

RECURSIVE RootFloor(_, _, _)
RootFloor(R, n, r) == IF IPow(r + 1, n) > R THEN r ELSE RootFloor(R, n, r + 1)

\* The n-th root of R, rounded to a whole number.
RootRound(R, n, mode) ==
    IF n = 1 \/ R <= 0 THEN R
    ELSE LET r == RootFloor(R, n, 0)
         IN  IF IPow(r, n) = R THEN r
             ELSE CASE mode = "down" -> r
                    [] mode = "up"   -> r + 1
                    [] OTHER -> IF IPow(2, n) * R > IPow(2 * r + 1, n)
                                THEN r + 1 ELSE r

\* Faulty variant: abs() that returns its argument.
AbsId(v) == v

Abs(v) == IF v < 0 THEN -v ELSE v

Whole(n) == [num |-> n, den |-> 1]

\* Faulty variant: recip() that returns p.
RecipId(e) == e

\* p.recip(): the exponent 1/p.
Recip(e) == [num |-> e.den, den |-> e.num]

\* base.powf(e), for e a whole number n (base^n) or its reciprocal (the n-th
\* root of base), rounded as this build's powf rounds.
PowfMode(base, e, mode) ==
    IF e.den = 1
    THEN RoundTo(IPow(base, e.num), IPow(Scale, e.num - 1), mode)
    ELSE RootRound(base * IPow(Scale, e.den - 1), e.den, mode)

Powf(base, e) == PowfMode(base, e, libm)

-----------------------------------------------------------------------------
(* Coordinates *)

Dims(pt) == Len(pt)

\* pt.coord(i), indices from 0.
Coord(pt, k) == pt[k + 1]

-----------------------------------------------------------------------------
(* lp_distance *)

\* Faulty variant: the difference without abs().
TermNoAbs(e, a, b) == Powf(a - b, Whole(e))

\* (x.coord(i) - y.coord(i)).abs().powf(p)
Term(e, a, b) == Powf(Abs(a - b), Whole(e))

\* Faulty variant: sum = term, for sum += term.
AccumulateAssign(acc, t) == t

\* sum += term
Accumulate(acc, t) == acc + t

\* Faulty variant: a loop over 1..x.dims().
FirstIndexOne == 0 + 1

\* for i in 0..x.dims(): the first index.
FirstIndex == 0

\* The loop of lp_distance from index k on, as a function of its arguments.
RECURSIVE SumFrom(_, _, _, _, _)
SumFrom(e, a, b, k, acc) ==
    IF k < Dims(a)
    THEN SumFrom(e, a, b, k + 1,
                 Accumulate(acc, Term(e, Coord(a, k), Coord(b, k))))
    ELSE acc

\* Faulty variants: the sum returned as it is; the sum raised to p.
FinishNoRoot(e, s) == s

FinishNoRecip(e, s) == Powf(s, Whole(e))

\* sum.powf(p.recip())
Finish(e, s) == Powf(s, Recip(Whole(e)))

\* lp_distance(e, a, b) for points of equal dimensionality.
LpDistance(e, a, b) == Finish(e, SumFrom(e, a, b, FirstIndex, Zero))

-----------------------------------------------------------------------------
(* One call lp_distance(p, x, y) *)

Init ==
    /\ build \in {"debug", "release"}
    /\ libm \in Roundings
    /\ p \in Exponents
    /\ x \in Points
    /\ y \in Points
    /\ pc = "assert"
    /\ i = 0
    /\ sum = Zero
    /\ visited = <<>>
    /\ result = <<>>

\* Faulty variant: the assertion compiled out of every build.
DebugAssertOff ==
    /\ pc = "assert"
    /\ pc' = "loop" /\ i' = FirstIndex /\ sum' = Zero
    /\ UNCHANGED <<build, libm, p, x, y, visited, result>>

\* debug_assert!(x.dims() == y.dims()); let mut sum = zero();
DebugAssert ==
    /\ pc = "assert"
    /\ IF build = "debug" /\ Dims(x) # Dims(y)
       THEN pc' = "panic" /\ UNCHANGED <<i, sum>>
       ELSE pc' = "loop" /\ i' = FirstIndex /\ sum' = Zero
    /\ UNCHANGED <<build, libm, p, x, y, visited, result>>

\* Faulty variant: an iteration that steps the index by two.
LoopStepSkip ==
    /\ pc = "loop"
    /\ i < Dims(x)
    /\ i < Dims(y)
    /\ sum' = Accumulate(sum, Term(p, Coord(x, i), Coord(y, i)))
    /\ visited' = Append(visited, i)
    /\ i' = i + 2
    /\ UNCHANGED <<build, libm, p, x, y, pc, result>>

\* One iteration of the loop, both coordinates in range.
LoopStep ==
    /\ pc = "loop"
    /\ i < Dims(x)
    /\ i < Dims(y)
    /\ sum' = Accumulate(sum, Term(p, Coord(x, i), Coord(y, i)))
    /\ visited' = Append(visited, i)
    /\ i' = i + 1
    /\ UNCHANGED <<build, libm, p, x, y, pc, result>>

\* One iteration with i past y's dimensionality (reached only without the
\* debug assertion): x.coord(i) is read, and y.coord(i) is up to y's
\* Coordinates implementation, which either halts (a bounds-checked slice)
\* or yields some value.
LoopStepPast ==
    /\ pc = "loop"
    /\ i < Dims(x)
    /\ i >= Dims(y)
    /\ \/ /\ pc' = "panic"
          /\ visited' = Append(visited, i)
          /\ UNCHANGED <<i, sum>>
       \/ /\ \E v \in Coords : sum' = Accumulate(sum, Term(p, Coord(x, i), v))
          /\ visited' = Append(visited, i)
          /\ i' = i + 1
          /\ pc' = pc
    /\ UNCHANGED <<build, libm, p, x, y, result>>

\* sum.powf(p.recip())
Return ==
    /\ pc = "loop"
    /\ i >= Dims(x)
    /\ result' = <<Finish(p, sum)>>
    /\ pc' = "done"
    /\ UNCHANGED <<build, libm, p, x, y, i, sum, visited>>

Next == DebugAssert \/ LoopStep \/ LoopStepPast \/ Return

Spec == Init /\ [][Next]_vars

-----------------------------------------------------------------------------
(* The formula of lp_distance's documentation, and the dedicated metrics *)

\* The sum of |a[k] - b[k]|^e over the index set S, in no particular order.
RECURSIVE SumOver(_, _, _, _)
SumOver(S, e, a, b) ==
    IF S = {} THEN Zero
    ELSE LET k == CHOOSE k \in S : TRUE
         IN  Term(e, a[k], b[k]) + SumOver(S \ {k}, e, a, b)

\* ( sum_i |x_i - y_i|^p )^(1/p)
LpFormula(e, a, b) == Powf(SumOver(1..Len(a), e, a, b), Recip(Whole(e)))

\* u * v and sqrt(v), correctly rounded.
Mul(u, v) == RoundTo(u * v, Scale, "near")

Sqrt(v) == RootRound(v * Scale, 2, "near")

RECURSIVE AbsSum(_, _, _)
AbsSum(a, b, k) ==
    IF k > Len(a) THEN Zero ELSE Abs(a[k] - b[k]) + AbsSum(a, b, k + 1)

RECURSIVE SquareSum(_, _, _)
SquareSum(a, b, k) ==
    IF k > Len(a) THEN Zero
    ELSE Mul(a[k] - b[k], a[k] - b[k]) + SquareSum(a, b, k + 1)

RECURSIVE AbsMax(_, _, _)
AbsMax(a, b, k) ==
    IF k > Len(a) THEN Zero
    ELSE LET d == Abs(a[k] - b[k])
             m == AbsMax(a, b, k + 1)
         IN  IF d > m THEN d ELSE m

\* l1_distance: the sum of the absolute differences.
L1Distance(a, b) == AbsSum(a, b, 1)

\* l2_distance: the square root of the sum of the squared differences.
L2Distance(a, b) == Sqrt(SquareSum(a, b, 1))

\* linf_distance: the maximum of the absolute differences.
LinfDistance(a, b) == AbsMax(a, b, 1)

\* The points of test_lp_distance: [0.0, 0.0] and [3.0, 4.0].
TestX == <<0 * Scale, 0 * Scale>>

TestY == <<3 * Scale, 4 * Scale>>

-----------------------------------------------------------------------------
(* Vocabulary of the properties *)

SameDims == Dims(x) = Dims(y)

Returned == pc = "done"

Value == result[1]

\* Every coordinate difference of a and b is a whole number, so that its
\* powers are representable and powf returns them exactly.
Exact(a, b) == \A k \in 1..Len(a) : (a[k] - b[k]) % Scale = 0

\* The number of dimensions in which a and b differ.
Differing(a, b) == Cardinality({k \in 1..Len(a) : a[k] # b[k]})

Ascending(n) == [k \in 1..n |-> k - 1]

-----------------------------------------------------------------------------
(* C1 *)

\* C1 as stated: for equal-dimensioned x, y and p >= 1 the returned distance
\* is 0 if and only if x and y have identical components.
C1Original == (Returned /\ SameDims) => (Value = 0 <=> x = y)

\* C1, amended: identical points (zero-dimensional ones among them) are at
\* distance 0; the distance is 0 exactly when every term |x[i] - y[i]|^p is 0
\* as a Value, which for different points happens when the powers underflow;
\* and a difference of at least 1.0 in some dimension makes it positive.
C1Amended ==
    (Returned /\ SameDims) =>
        /\ x = y => Value = 0
        /\ Dims(x) = 0 => Value = 0
        /\ Value = 0 <=> \A k \in 1..Len(x) : Term(p, x[k], y[k]) = 0
        /\ (\E k \in 1..Len(x) : x[k] - y[k] >= Scale \/ y[k] - x[k] >= Scale)
               => Value > 0

\* Two different points at distance 0.
C1Witness ==
    /\ Returned /\ SameDims
    /\ Dims(x) = 2 /\ x[1] # y[1] /\ x[2] # y[2]
    /\ Value = 0

-----------------------------------------------------------------------------
(* C2 *)

\* C2: lp_distance(p, x, y) = lp_distance(p, y, x): the value the call
\* returns is the value of the call with the two points exchanged.
C2Symmetric == (Returned /\ SameDims) => Value = LpDistance(p, y, x)

C2Witness ==
    /\ Returned /\ SameDims
    /\ Dims(x) = 2 /\ x[1] < y[1] /\ x[2] > y[2]
    /\ p = 3 /\ Value > 0 /\ Value = LpDistance(p, y, x)

-----------------------------------------------------------------------------
(* C3 *)

\* C3: for equal-dimensioned x, y and p >= 1 the returned value is >= 0.
C3NonNegative == (Returned /\ SameDims) => Value >= 0

C3Witness ==
    /\ Returned /\ SameDims
    /\ Dims(x) = 1 /\ x[1] < y[1] /\ p = 1 /\ Value > 0

-----------------------------------------------------------------------------
(* C4 *)

\* C4: lp_distance(1, x, y) is l1_distance(x, y), the sum of |x[i] - y[i]|.
C4EqualsL1 == (Returned /\ SameDims /\ p = 1) => Value = L1Distance(x, y)

\* lp_distance(1.0, (0,0), (3,4)) = 7.0 = l1_distance((0,0), (3,4)).
C4Witness ==
    /\ Returned /\ p = 1 /\ x = TestX /\ y = TestY
    /\ Value = 7 * Scale /\ L1Distance(x, y) = 7 * Scale

-----------------------------------------------------------------------------
(* C5 *)

-----------------------------------------------------------------------------
(* C6 *)

\* C6 as stated: lp_distance(3.0, (0,0), (3,4)) is less than 5.0 and lies
\* strictly between the L2 result 5.0 and the L1 result 7.0.
C6Original ==
    (Returned /\ p = 3 /\ x = TestX /\ y = TestY) =>
        /\ Value < 5 * Scale
        /\ L2Distance(x, y) < Value /\ Value < L1Distance(x, y)

\* C6, amended: lp_distance(3.0, (0,0), (3,4)) is less than 5.0, the L2
\* result, and lies strictly between the L-infinity result 4.0 and the L2
\* result 5.0 (the L1 result being 7.0).
C6Amended ==
    (Returned /\ p = 3 /\ x = TestX /\ y = TestY) =>
        /\ Value < 5 * Scale
        /\ L1Distance(x, y) = 7 * Scale
        /\ L2Distance(x, y) = 5 * Scale
        /\ LinfDistance(x, y) = 4 * Scale
        /\ LinfDistance(x, y) < Value /\ Value < L2Distance(x, y)

C6Witness == Returned /\ p = 3 /\ x = TestX /\ y = TestY /\ libm = "near"

-----------------------------------------------------------------------------
(* C7 *)

-----------------------------------------------------------------------------
(* C8 *)

\* C8: with x.dims() # y.dims(), a build with debug assertions halts at the
\* assertion, before any coordinate is read, and returns no value; a build
\* without them makes no check and enters the loop; in no build is there an
\* error value: the call halts or returns a number.
C8Inv ==
    Dims(x) # Dims(y) =>
        /\ build = "debug" =>
               /\ pc \in {"assert", "panic"}
               /\ visited = <<>>
               /\ result = <<>>
        /\ build = "release" => (pc = "panic" => visited # <<>>)
        /\ pc = "assert" => ENABLED DebugAssert
        /\ pc = "done" <=> result # <<>>
        /\ result # <<>> => (Len(result) = 1 /\ Value \in Nat)

C8Step ==
    (pc = "assert" /\ Dims(x) # Dims(y)) =>
        /\ build = "debug" => pc' = "panic"
        /\ build = "release" => pc' = "loop"

C8Mismatch == []C8Inv /\ [][C8Step]_vars

C8Witness == Dims(x) # Dims(y) /\ build = "debug" /\ pc = "panic"

-----------------------------------------------------------------------------
(* C9 *)

\* C9: for equal-dimensioned points of dimensionality n the call starts from
\* a sum of zero, visits the indices 0, 1, ..., n-1 once each in ascending
\* order, adding |x[i] - y[i]|^p at each, then returns sum^(1/p), which is
\* the formula's (sum_{i<n} |x[i] - y[i]|^p)^(1/p); it is never stuck before
\* it returns, and neither point is modified.
C9Inv ==
    SameDims =>
        /\ pc = "loop" =>
               /\ i <= Dims(x)
               /\ visited = Ascending(i)
               /\ sum = SumOver(1..i, p, x, y)
        /\ pc = "done" =>
               /\ visited = Ascending(Dims(x))
               /\ result = <<LpFormula(p, x, y)>>
        /\ pc # "panic"
        /\ pc \in {"assert", "loop"} => ENABLED Next

C9Step ==
    /\ x' = x /\ y' = y
    /\ (SameDims /\ pc = "loop" /\ pc' = "loop") =>
           (i' = i + 1 /\ visited' = Append(visited, i))
    /\ (SameDims /\ pc = "assert") => (pc' = "loop" /\ i' = 0 /\ sum' = 0)

C9Loop == []C9Inv /\ [][C9Step]_vars

C9Witness ==
    /\ Returned /\ SameDims
    /\ Dims(x) = MaxDim /\ visited = Ascending(MaxDim)
    /\ x[1] # y[1] /\ x[2] # y[2] /\ Value > 0

-----------------------------------------------------------------------------
(* C10 *)

=============================================================================
